---- MODULE Spec2Model ----
(***************************************************************************)
(* The PayWhirl client of src/paywhirl.py: a client object holding a key,  *)
(* a secret and a base URL, forty endpoint methods, and the two dispatch   *)
(* routines _get and _post they all call.  A call is synchronous: it       *)
(* builds one request, hands it to the HTTP library, and turns the         *)
(* library's answer into the value it returns (or the exception it lets    *)
(* through).  The HTTP library and the remote server are the environment:  *)
(* their answer to a request is drawn from Transport.  The print(url,      *)
(* headers) of lines 659 and 673 writes to stdout only and is left out.    *)
(***************************************************************************)
EXTENDS Integers, Sequences, FiniteSets, TLC

VARIABLES
    _api_key,     \* self._api_key
    _api_secret,  \* self._api_secret
    _api_base,    \* self._api_base
    ctor,         \* the arguments the constructor was called with
    ncalls,       \* calls made on the client so far
    nrequests,    \* requests handed to the HTTP library so far
    last,         \* the most recent call: inputs, request, response, outcome
    memo          \* history: the first successful watched call, for comparison

vars == <<_api_key, _api_secret, _api_base, ctor, ncalls, nrequests, last, memo>>

(***************************************************************************)
(* Bounds.                                                                 *)
(***************************************************************************)
MaxCalls == 3

(***************************************************************************)
(* Python values.  Every value has the same four fields so that any two    *)
(* can be compared: None, an int, a list (elems) or a dict (entries, a     *)
(* set of <<key, value>> pairs with distinct keys).                        *)
(***************************************************************************)
PyNone == [t |-> "none", n |-> 0, elems |-> <<>>, entries |-> {}]
PyInt(i) == [t |-> "int", n |-> i, elems |-> <<>>, entries |-> {}]
PyList(xs) == [t |-> "list", n |-> 0, elems |-> xs, entries |-> {}]
PyDict(es) == [t |-> "dict", n |-> 0, elems |-> <<>>, entries |-> es]

\* d[k] = v on a dict
SetItem(d, k, v) ==
    PyDict({e \in d.entries : e[1] # k} \cup {<<k, v>>})

\* dict([...]) on a list of (key, value) pairs: later pairs win
RECURSIVE DictOf(_)
DictOf(pairs) ==
    IF pairs = <<>> THEN PyDict({})
    ELSE LET n == Len(pairs)
         IN SetItem(DictOf(SubSeq(pairs, 1, n - 1)), pairs[n][1], pairs[n][2])

(***************************************************************************)
(* str(int) and str.format('<prefix>{0}', arg), digit by digit.            *)
(***************************************************************************)
DigitChar(d) ==
    CASE d = 0 -> "0" [] d = 1 -> "1" [] d = 2 -> "2" [] d = 3 -> "3"
      [] d = 4 -> "4" [] d = 5 -> "5" [] d = 6 -> "6" [] d = 7 -> "7"
      [] d = 8 -> "8" [] d = 9 -> "9"

RECURSIVE str(_)
str(i) ==
    IF i < 0 THEN "-" \o str(0 - i)
    ELSE IF i < 10 THEN DigitChar(i)
    ELSE str(i \div 10) \o DigitChar(i % 10)

\* str.format(prefix + '{0}', arg) for an int argument
format(prefix, arg) == prefix \o str(arg.n)

(***************************************************************************)
(* resp.json(): the JSON decoder, on a body given as a sequence of         *)
(* characters.  Integers, null, arrays and objects with string keys.       *)
(***************************************************************************)
Digits == {"0", "1", "2", "3", "4", "5", "6", "7", "8", "9"}

DigitVal(c) ==
    CASE c = "0" -> 0 [] c = "1" -> 1 [] c = "2" -> 2 [] c = "3" -> 3
      [] c = "4" -> 4 [] c = "5" -> 5 [] c = "6" -> 6 [] c = "7" -> 7
      [] c = "8" -> 8 [] c = "9" -> 9

JSONDecodeError == [ok |-> FALSE, val |-> PyNone, rest |-> <<>>]
Decoded(v, rest) == [ok |-> TRUE, val |-> v, rest |-> rest]

RECURSIVE scan_digits(_, _)
scan_digits(s, acc) ==
    IF s # <<>> /\ Head(s) \in Digits
    THEN scan_digits(Tail(s), acc * 10 + DigitVal(Head(s)))
    ELSE [n |-> acc, rest |-> s]

\* an integer literal: no leading zeros, optional minus sign
scan_number(s) ==
    LET neg == s # <<>> /\ Head(s) = "-"
        body == IF neg THEN Tail(s) ELSE s
    IN IF body = <<>> \/ Head(body) \notin Digits THEN JSONDecodeError
       ELSE IF Head(body) = "0"
       THEN Decoded(PyInt(0), Tail(body))
       ELSE LET r == scan_digits(body, 0)
            IN Decoded(PyInt(IF neg THEN 0 - r.n ELSE r.n), r.rest)

\* the characters of a string literal after its opening quote
RECURSIVE scanstring(_, _)
scanstring(s, acc) ==
    IF s = <<>> THEN [ok |-> FALSE, key |-> "", rest |-> <<>>]
    ELSE IF Head(s) = "\"" THEN [ok |-> TRUE, key |-> acc, rest |-> Tail(s)]
    ELSE scanstring(Tail(s), acc \o Head(s))

RECURSIVE scan_once(_)
RECURSIVE JSONArray(_, _)
RECURSIVE JSONObject(_, _)

\* the elements of an array after '[' or ',': value, then ',' or ']'
JSONArray(s, acc) ==
    LET r == scan_once(s)
    IN IF ~r.ok \/ r.rest = <<>> THEN JSONDecodeError
       ELSE IF Head(r.rest) = "]"
       THEN Decoded(PyList(Append(acc, r.val)), Tail(r.rest))
       ELSE IF Head(r.rest) = ","
       THEN JSONArray(Tail(r.rest), Append(acc, r.val))
       ELSE JSONDecodeError

\* the members of an object after '{' or ',': "key":value, then ',' or '}'
JSONObject(s, acc) ==
    IF s = <<>> \/ Head(s) # "\"" THEN JSONDecodeError
    ELSE LET k == scanstring(Tail(s), "")
         IN IF ~k.ok \/ k.rest = <<>> \/ Head(k.rest) # ":" THEN JSONDecodeError
            ELSE LET r == scan_once(Tail(k.rest))
                 IN IF ~r.ok \/ r.rest = <<>> THEN JSONDecodeError
                    ELSE IF Head(r.rest) = "}"
                    THEN Decoded(SetItem(acc, k.key, r.val), Tail(r.rest))
                    ELSE IF Head(r.rest) = ","
                    THEN JSONObject(Tail(r.rest), SetItem(acc, k.key, r.val))
                    ELSE JSONDecodeError

scan_once(s) ==
    IF s = <<>> THEN JSONDecodeError
    ELSE IF Head(s) = "{"
    THEN IF Tail(s) # <<>> /\ Head(Tail(s)) = "}"
         THEN Decoded(PyDict({}), Tail(Tail(s)))
         ELSE JSONObject(Tail(s), PyDict({}))
    ELSE IF Head(s) = "["
    THEN IF Tail(s) # <<>> /\ Head(Tail(s)) = "]"
         THEN Decoded(PyList(<<>>), Tail(Tail(s)))
         ELSE JSONArray(Tail(s), <<>>)
    ELSE IF Len(s) >= 4 /\ SubSeq(s, 1, 4) = <<"n", "u", "l", "l">>
    THEN Decoded(PyNone, SubSeq(s, 5, Len(s)))
    ELSE scan_number(s)

\* json.loads: one value, and nothing after it
json(body) ==
    LET r == scan_once(body)
    IN IF r.ok /\ r.rest = <<>> THEN r ELSE JSONDecodeError

(***************************************************************************)
(* The HTTP library.  A request is what requests.get / requests.post was   *)
(* given; the environment's answer is either a transport failure (the      *)
(* library raises) or a response with a status code and a body.            *)
(***************************************************************************)
Request(verb, url, headers, params) ==
    [verb |-> verb, url |-> url, headers |-> headers, params |-> params]

NoResponse ==
    [obtained |-> FALSE, status_code |-> 0, body |-> <<>>,
     closed |-> FALSE, json_calls |-> 0]

Response(io) ==
    [obtained |-> TRUE, status_code |-> io.status_code, body |-> io.body,
     closed |-> FALSE, json_calls |-> 0]

\* requests.codes['ok']
codes_ok == 200

BodyObject == <<"{", "\"", "a", "\"", ":", "1", "}">>
BodyNumber == <<"4", "0", "4">>
BodyBroken == <<"<", "h", "1", ">">>

Answer(status_code, body) ==
    [fail |-> FALSE, status_code |-> status_code, body |-> body]
TransportFailure == [fail |-> TRUE, status_code |-> 0, body |-> <<>>]

Transport ==
    {Answer(200, BodyObject), Answer(200, BodyNumber), Answer(200, BodyBroken),
     Answer(404, BodyObject), Answer(500, BodyBroken), TransportFailure}

(***************************************************************************)
(* The client.                                                             *)
(***************************************************************************)
DefaultApiBase == "https://api.paywhirl.com"

__init__(api_key, api_secret, api_base) ==
    [_api_key |-> api_key, _api_secret |-> api_secret, _api_base |-> api_base]

\* How a call ends: the client afterwards, the dispatch routine entered and
\* the endpoint it was given, the requests it sent, the response object as
\* the call left it, and the value returned or the exception let through.
\* The mapping a dispatch routine was given as params: as it was on entry
\* and as the routine left it.  Neither routine writes to it.
Kept(params) == [given |-> params, left |-> params]

Returned(self, routine, endpoint, mapping, sent, resp, ret) ==
    [self |-> self, routine |-> routine, endpoint |-> endpoint,
     mapping |-> mapping, sent |-> sent, resp |-> resp,
     outcome |-> "returned", ret |-> ret]
Raised(self, routine, endpoint, mapping, sent, resp) ==
    [self |-> self, routine |-> routine, endpoint |-> endpoint,
     mapping |-> mapping, sent |-> sent, resp |-> resp,
     outcome |-> "raised", ret |-> PyNone]

(***************************************************************************)
(* Faulty variants of the dispatch routines, one slip each.  They are not  *)
(* the program: each replaces _get or _post to show that a property below  *)
(* depends on the routine.                                                 *)
(***************************************************************************)
Faulty(bug, routine, verb, self, endpoint, params, io) ==
    LET params1 == IF params = PyNone THEN PyDict({}) ELSE params
        url == IF bug = "no_separator"
               THEN self._api_base \o endpoint
               ELSE self._api_base \o "/" \o endpoint
        headers == {<<"api_key", self._api_key>>,
                    <<"api_secret", self._api_secret>>}
                   \cup (IF bug = "extra_header"
                         THEN {<<"Accept", "application/json">>}
                         ELSE {})
        req == Request(verb, url, headers, params1)
        mapping == IF bug = "writes_params" /\ params # PyNone
                   THEN [given |-> params,
                         left |-> SetItem(params, "api_key",
                                          PyInt(0))]
                   ELSE Kept(params)
        after == IF bug = "keeps_url"
                 THEN [self EXCEPT !._api_base = url]
                 ELSE self
    IN IF io.fail THEN Raised(after, routine, endpoint, mapping, <<req>>, NoResponse)
       ELSE LET resp == Response(io)
            IN IF resp.status_code = codes_ok
               THEN LET ret == json(resp.body)
                        read == [resp EXCEPT !.json_calls = @ + 1]
                    IN IF ret.ok
                       THEN Returned(after, routine, endpoint, mapping, <<req>>,
                                     [read EXCEPT !.closed = TRUE],
                                     IF bug = "rewraps"
                                     THEN PyDict({<<"data", ret.val>>})
                                     ELSE ret.val)
                       ELSE Raised(after, routine, endpoint, mapping, <<req>>, read)
               ELSE IF bug = "retries"
               THEN Returned(after, routine, endpoint, mapping, <<req, req>>, resp,
                             PyInt(resp.status_code))
               ELSE IF bug = "reads_error_body" /\ json(resp.body).ok
               THEN Returned(after, routine, endpoint, mapping, <<req>>,
                             [resp EXCEPT !.json_calls = @ + 1],
                             json(resp.body).val)
               ELSE Returned(after, routine, endpoint, mapping, <<req>>, resp,
                             PyInt(resp.status_code))

\* returns {'data': <decoded body>} on a 200
_post_rewraps(self, endpoint, params, io) ==
    Faulty("rewraps", "_post", "POST", self, endpoint, params, io)

\* returns the decoded error body on a non-200
_get_reads_error_body(self, endpoint, params, io) ==
    Faulty("reads_error_body", "_get", "GET", self, endpoint, params, io)

\* sends a third header
_post_extra_header(self, endpoint, params, io) ==
    Faulty("extra_header", "_post", "POST", self, endpoint, params, io)

\* sends the request again after a non-200
_get_retries(self, endpoint, params, io) ==
    Faulty("retries", "_get", "GET", self, endpoint, params, io)

\* joins base URL and endpoint without the separator
_post_no_separator(self, endpoint, params, io) ==
    Faulty("no_separator", "_post", "POST", self, endpoint, params, io)

\* stores the composed URL back into self._api_base
_post_keeps_url(self, endpoint, params, io) ==
    Faulty("keeps_url", "_post", "POST", self, endpoint, params, io)

\* writes an entry into the caller's params mapping
_post_writes_params(self, endpoint, params, io) ==
    Faulty("writes_params", "_post", "POST", self, endpoint, params, io)

_post(self, endpoint, params, io) ==
    LET params1 == IF params = PyNone THEN PyDict({}) ELSE params
        url == self._api_base \o "/" \o endpoint
        headers == {<<"api_key", self._api_key>>,
                    <<"api_secret", self._api_secret>>}
        sent == <<Request("POST", url, headers, params1)>>
    IN IF io.fail THEN Raised(self, "_post", endpoint, Kept(params), sent, NoResponse)
       ELSE LET resp == Response(io)
            IN IF resp.status_code = codes_ok
               THEN LET ret == json(resp.body)
                        read == [resp EXCEPT !.json_calls = @ + 1]
                    IN IF ret.ok
                       THEN Returned(self, "_post", endpoint, Kept(params),
                                     sent, [read EXCEPT !.closed = TRUE],
                                     ret.val)
                       ELSE Raised(self, "_post", endpoint, Kept(params), sent, read)
               ELSE Returned(self, "_post", endpoint, Kept(params), sent,
                             resp, PyInt(resp.status_code))

_get(self, endpoint, params, io) ==
    LET params1 == IF params = PyNone THEN PyDict({}) ELSE params
        url == self._api_base \o "/" \o endpoint
        headers == {<<"api_key", self._api_key>>,
                    <<"api_secret", self._api_secret>>}
        sent == <<Request("GET", url, headers, params1)>>
    IN IF io.fail THEN Raised(self, "_get", endpoint, Kept(params), sent, NoResponse)
       ELSE LET resp == Response(io)
            IN IF resp.status_code = codes_ok
               THEN LET ret == json(resp.body)
                        read == [resp EXCEPT !.json_calls = @ + 1]
                    IN IF ret.ok
                       THEN Returned(self, "_get", endpoint, Kept(params),
                                     sent, [read EXCEPT !.closed = TRUE],
                                     ret.val)
                       ELSE Raised(self, "_get", endpoint, Kept(params), sent, read)
               ELSE Returned(self, "_get", endpoint, Kept(params), sent,
                             resp, PyInt(resp.status_code))

(***************************************************************************)
(* The endpoint methods, in source order.                                  *)
(***************************************************************************)
get_customers(self, data, io) ==
    _get(self, "/customers", data, io)

get_customer(self, customer_id, io) ==
    _get(self, format("/customer/", customer_id), PyNone, io)

create_customer(self, data, io) ==
    _post(self, "/create/customer", data, io)

update_customer(self, data, io) ==
    _post(self, "/update/customer", data, io)

get_questions(self, return_list_size, io) ==
    LET data == PyDict({<<"limit", return_list_size>>})
    IN _get(self, "/questions", data, io)

update_answer(self, data, io) ==
    _post(self, "/update/answer", data, io)

get_answers(self, customer_id, io) ==
    LET data == PyDict({<<"customer_id", customer_id>>})
    IN _get(self, "/answers", data, io)

get_plans(self, data, io) ==
    _get(self, "/plans", data, io)

get_plan(self, plan_id, io) ==
    _get(self, format("/plan/", plan_id), PyNone, io)

create_plan(self, data, io) ==
    _post(self, "/create/plan", data, io)

update_plan(self, data, io) ==
    _post(self, "/update/plan", data, io)

get_subscriptions(self, customer_id, io) ==
    _get(self, format("/subscriptions/", customer_id), PyNone, io)

get_subscription(self, subscription_id, io) ==
    _get(self, format("/subscription/", subscription_id), PyNone, io)

subscribe_customer(self, data, io) ==
    _post(self, "/subscribe/customer", data, io)

\* A faulty variant of update_subscription: 'if quantity:' in place of
\* 'if quantity is not None:'.
update_subscription_truthy(self, subscription_id, plan_id, quantity, io) ==
    LET data == DictOf(<< <<"subscription_id", subscription_id>>,
                          <<"plan_id", plan_id>> >>)
        data1 == IF quantity # PyNone /\ quantity # PyInt(0)
                 THEN SetItem(data, "quantity", quantity)
                 ELSE data
    IN _post(self, "/update/subscription", data1, io)

update_subscription(self, subscription_id, plan_id, quantity, io) ==
    LET data == DictOf(<< <<"subscription_id", subscription_id>>,
                          <<"plan_id", plan_id>> >>)
        data1 == IF quantity # PyNone
                 THEN SetItem(data, "quantity", quantity)
                 ELSE data
    IN _post(self, "/update/subscription", data1, io)

unsubscribe_customer(self, subscription_id, io) ==
    LET data == DictOf(<< <<"subscription_id", subscription_id>> >>)
    IN _post(self, "/unsubscribe/customer", data, io)

get_subscribers(self, data, io) ==
    _get(self, "/subscribers", data, io)

get_invoice(self, invoice_id, io) ==
    _get(self, format("/invoice/", invoice_id), PyNone, io)

get_invoices(self, customer_id, io) ==
    _get(self, format("/invoices/", customer_id), PyNone, io)

get_gateways(self, io) ==
    _get(self, "/gateways", PyNone, io)

get_gateway(self, gateway_id, io) ==
    _get(self, format("/gateway/", gateway_id), PyNone, io)

create_charge(self, data, io) ==
    _post(self, "/create/charge", data, io)

get_charge(self, charge_id, io) ==
    _get(self, format("/charge/", charge_id), PyNone, io)

get_cards(self, customer_id, io) ==
    _get(self, format("/cards/", customer_id), PyNone, io)

get_card(self, card_id, io) ==
    _get(self, format("/card/", card_id), PyNone, io)

create_card(self, data, io) ==
    _post(self, "/create/card", data, io)

delete_card(self, card_id, io) ==
    LET data == DictOf(<< <<"id", card_id>> >>)
    IN _post(self, "/delete/card", data, io)

get_promos(self, io) ==
    _get(self, "/promo", PyNone, io)

get_promo(self, promo_id, io) ==
    _get(self, format("/promo/", promo_id), PyNone, io)

create_promo(self, data, io) ==
    _post(self, "/create/promo", data, io)

\* A faulty variant of delete_promo: the ID wrapped under the wrong key.
delete_promo_wrong_key(self, promo_id, io) ==
    LET data == DictOf(<< <<"promo_id", promo_id>> >>)
    IN _post(self, "/delete/promo", data, io)

delete_promo(self, promo_id, io) ==
    LET data == DictOf(<< <<"id", promo_id>> >>)
    IN _post(self, "/delete/promo", data, io)

get_email_template(self, template_id, io) ==
    _get(self, format("/email/", template_id), PyNone, io)

send_email(self, data, io) ==
    _post(self, "/send-email", data, io)

get_account(self, io) ==
    _get(self, "/account", PyNone, io)

get_stats(self, io) ==
    _get(self, "/stats", PyNone, io)

get_shipping_rules(self, io) ==
    _get(self, "/shipping/", PyNone, io)

get_shipping_rule(self, shipping_rule_id, io) ==
    _get(self, format("/shipping/", shipping_rule_id), PyNone, io)

get_tax_rules(self, io) ==
    _get(self, "/tax", PyNone, io)

get_tax_rule(self, rule_id, io) ==
    _get(self, format("/tax/", rule_id), PyNone, io)

get_multi_auth_token(self, data, io) ==
    _post(self, "/multiauth", data, io)

(***************************************************************************)
(* Inputs the callers draw from.                                           *)
(***************************************************************************)
Ids == {PyInt(5), PyInt(42)}
PlanIds == {PyInt(9)}
Quantities == {PyNone, PyInt(0), PyInt(3)}
\* get_questions(return_list_size=100)
ListSizes == {PyInt(100), PyInt(2)}
DataDicts == {PyDict({}), PyDict({<<"limit", PyInt(2)>>})}
Endpoints == {"customers", "/customers"}
Credentials == {<<"k", "s">>, <<"key2", "secret2">>}
ApiBases == {DefaultApiBase, "http://localhost:8080"}

(***************************************************************************)
(* State.                                                                  *)
(***************************************************************************)
Self ==
    [_api_key |-> _api_key, _api_secret |-> _api_secret, _api_base |-> _api_base]

NoCall ==
    [method |-> "", args |-> <<>>, routine |-> "", endpoint |-> "",
     mapping |-> Kept(PyNone), sent |-> <<>>, resp |-> NoResponse,
     outcome |-> "none", ret |-> PyNone]

\* The calls the history variable memo may record.
WatchedMethods == {"get_customer", "unsubscribe_customer"}

Construct(credentials, bases, armed) ==
    \E c \in credentials, b \in bases :
        LET self == __init__(c[1], c[2], b)
        IN /\ ctor = [api_key |-> c[1], api_secret |-> c[2], api_base |-> b]
           /\ _api_key = self._api_key
           /\ _api_secret = self._api_secret
           /\ _api_base = self._api_base
           /\ ncalls = 0
           /\ nrequests = 0
           /\ last = NoCall
           /\ memo = [armed |-> armed, set |-> FALSE, call |-> NoCall,
                      others |-> FALSE]

Init == Construct(Credentials, ApiBases, FALSE)

\* One call of a method: r is how the method ended.
Call(method, args, r) ==
    LET call == [method |-> method, args |-> args, routine |-> r.routine,
                 endpoint |-> r.endpoint, mapping |-> r.mapping,
                 sent |-> r.sent, resp |-> r.resp,
                 outcome |-> r.outcome, ret |-> r.ret]
        other == memo.set /\ method # memo.call.method
    IN /\ ncalls < MaxCalls
       /\ _api_key' = r.self._api_key
       /\ _api_secret' = r.self._api_secret
       /\ _api_base' = r.self._api_base
       /\ ncalls' = ncalls + 1
       /\ nrequests' = nrequests + Len(r.sent)
       /\ last' = call
       /\ memo' = IF /\ memo.armed
                     /\ ~memo.set
                     /\ method \in WatchedMethods
                     /\ r.outcome = "returned"
                     /\ r.resp.status_code = codes_ok
                  THEN [memo EXCEPT !.set = TRUE, !.call = call]
                  ELSE [memo EXCEPT !.others = other \/ @]
       /\ UNCHANGED ctor

call_get_customers ==
    \E data \in DataDicts, io \in Transport :
        Call("get_customers", <<data>>, get_customers(Self, data, io))

call_get_customer ==
    \E customer_id \in Ids, io \in Transport :
        Call("get_customer", <<customer_id>>, get_customer(Self, customer_id, io))

call_create_customer ==
    \E data \in DataDicts, io \in Transport :
        Call("create_customer", <<data>>, create_customer(Self, data, io))

call_update_customer ==
    \E data \in DataDicts, io \in Transport :
        Call("update_customer", <<data>>, update_customer(Self, data, io))

call_get_questions ==
    \E return_list_size \in ListSizes, io \in Transport :
        Call("get_questions", <<return_list_size>>, get_questions(Self, return_list_size, io))

call_update_answer ==
    \E data \in DataDicts, io \in Transport :
        Call("update_answer", <<data>>, update_answer(Self, data, io))

call_get_answers ==
    \E customer_id \in Ids, io \in Transport :
        Call("get_answers", <<customer_id>>, get_answers(Self, customer_id, io))

call_get_plans ==
    \E data \in DataDicts, io \in Transport :
        Call("get_plans", <<data>>, get_plans(Self, data, io))

call_get_plan ==
    \E plan_id \in Ids, io \in Transport :
        Call("get_plan", <<plan_id>>, get_plan(Self, plan_id, io))

call_create_plan ==
    \E data \in DataDicts, io \in Transport :
        Call("create_plan", <<data>>, create_plan(Self, data, io))

call_update_plan ==
    \E data \in DataDicts, io \in Transport :
        Call("update_plan", <<data>>, update_plan(Self, data, io))

call_get_subscriptions ==
    \E customer_id \in Ids, io \in Transport :
        Call("get_subscriptions", <<customer_id>>, get_subscriptions(Self, customer_id, io))

call_get_subscription ==
    \E subscription_id \in Ids, io \in Transport :
        Call("get_subscription", <<subscription_id>>, get_subscription(Self, subscription_id, io))

call_subscribe_customer ==
    \E data \in DataDicts, io \in Transport :
        Call("subscribe_customer", <<data>>, subscribe_customer(Self, data, io))

call_update_subscription ==
    \E subscription_id \in Ids, plan_id \in PlanIds, quantity \in Quantities,
       io \in Transport :
        Call("update_subscription", <<subscription_id, plan_id, quantity>>,
             update_subscription(Self, subscription_id, plan_id, quantity, io))

call_unsubscribe_customer ==
    \E subscription_id \in Ids, io \in Transport :
        Call("unsubscribe_customer", <<subscription_id>>, unsubscribe_customer(Self, subscription_id, io))

call_get_subscribers ==
    \E data \in DataDicts, io \in Transport :
        Call("get_subscribers", <<data>>, get_subscribers(Self, data, io))

call_get_invoice ==
    \E invoice_id \in Ids, io \in Transport :
        Call("get_invoice", <<invoice_id>>, get_invoice(Self, invoice_id, io))

call_get_invoices ==
    \E customer_id \in Ids, io \in Transport :
        Call("get_invoices", <<customer_id>>, get_invoices(Self, customer_id, io))

call_get_gateways ==
    \E io \in Transport :
        Call("get_gateways", <<>>, get_gateways(Self, io))

call_get_gateway ==
    \E gateway_id \in Ids, io \in Transport :
        Call("get_gateway", <<gateway_id>>, get_gateway(Self, gateway_id, io))

call_create_charge ==
    \E data \in DataDicts, io \in Transport :
        Call("create_charge", <<data>>, create_charge(Self, data, io))

call_get_charge ==
    \E charge_id \in Ids, io \in Transport :
        Call("get_charge", <<charge_id>>, get_charge(Self, charge_id, io))

call_get_cards ==
    \E customer_id \in Ids, io \in Transport :
        Call("get_cards", <<customer_id>>, get_cards(Self, customer_id, io))

call_get_card ==
    \E card_id \in Ids, io \in Transport :
        Call("get_card", <<card_id>>, get_card(Self, card_id, io))

call_create_card ==
    \E data \in DataDicts, io \in Transport :
        Call("create_card", <<data>>, create_card(Self, data, io))

call_delete_card ==
    \E card_id \in Ids, io \in Transport :
        Call("delete_card", <<card_id>>, delete_card(Self, card_id, io))

call_get_promos ==
    \E io \in Transport :
        Call("get_promos", <<>>, get_promos(Self, io))

call_get_promo ==
    \E promo_id \in Ids, io \in Transport :
        Call("get_promo", <<promo_id>>, get_promo(Self, promo_id, io))

call_create_promo ==
    \E data \in DataDicts, io \in Transport :
        Call("create_promo", <<data>>, create_promo(Self, data, io))

call_delete_promo ==
    \E promo_id \in Ids, io \in Transport :
        Call("delete_promo", <<promo_id>>, delete_promo(Self, promo_id, io))

call_get_email_template ==
    \E template_id \in Ids, io \in Transport :
        Call("get_email_template", <<template_id>>, get_email_template(Self, template_id, io))

call_send_email ==
    \E data \in DataDicts, io \in Transport :
        Call("send_email", <<data>>, send_email(Self, data, io))

call_get_account ==
    \E io \in Transport :
        Call("get_account", <<>>, get_account(Self, io))

call_get_stats ==
    \E io \in Transport :
        Call("get_stats", <<>>, get_stats(Self, io))

call_get_shipping_rules ==
    \E io \in Transport :
        Call("get_shipping_rules", <<>>, get_shipping_rules(Self, io))

call_get_shipping_rule ==
    \E shipping_rule_id \in Ids, io \in Transport :
        Call("get_shipping_rule", <<shipping_rule_id>>, get_shipping_rule(Self, shipping_rule_id, io))

call_get_tax_rules ==
    \E io \in Transport :
        Call("get_tax_rules", <<>>, get_tax_rules(Self, io))

call_get_tax_rule ==
    \E rule_id \in Ids, io \in Transport :
        Call("get_tax_rule", <<rule_id>>, get_tax_rule(Self, rule_id, io))

call_get_multi_auth_token ==
    \E data \in DataDicts, io \in Transport :
        Call("get_multi_auth_token", <<data>>, get_multi_auth_token(Self, data, io))

\* The dispatch routines called directly.
call__post ==
    \E endpoint \in Endpoints, params \in DataDicts \cup {PyNone},
       io \in Transport :
        Call("_post", <<endpoint, params>>, _post(Self, endpoint, params, io))

call__get ==
    \E endpoint \in Endpoints, params \in DataDicts \cup {PyNone},
       io \in Transport :
        Call("_get", <<endpoint, params>>, _get(Self, endpoint, params, io))

Next ==
    \/ call_get_customers
    \/ call_get_customer
    \/ call_create_customer
    \/ call_update_customer
    \/ call_get_questions
    \/ call_update_answer
    \/ call_get_answers
    \/ call_get_plans
    \/ call_get_plan
    \/ call_create_plan
    \/ call_update_plan
    \/ call_get_subscriptions
    \/ call_get_subscription
    \/ call_subscribe_customer
    \/ call_update_subscription
    \/ call_unsubscribe_customer
    \/ call_get_subscribers
    \/ call_get_invoice
    \/ call_get_invoices
    \/ call_get_gateways
    \/ call_get_gateway
    \/ call_create_charge
    \/ call_get_charge
    \/ call_get_cards
    \/ call_get_card
    \/ call_create_card
    \/ call_delete_card
    \/ call_get_promos
    \/ call_get_promo
    \/ call_create_promo
    \/ call_delete_promo
    \/ call_get_email_template
    \/ call_send_email
    \/ call_get_account
    \/ call_get_stats
    \/ call_get_shipping_rules
    \/ call_get_shipping_rule
    \/ call_get_tax_rules
    \/ call_get_tax_rule
    \/ call_get_multi_auth_token
    \/ call__post
    \/ call__get

Spec == Init /\ [][Next]_vars

\* The same client with the history variable memo recording.
InitIdem == Construct({<<"k", "s">>}, {DefaultApiBase}, TRUE)
SpecIdem == InitIdem /\ [][Next]_vars

(***************************************************************************)
(* Properties.                                                             *)
(***************************************************************************)
EndpointMethods ==
    {"get_customers", "get_customer", "create_customer",
     "update_customer", "get_questions", "update_answer", "get_answers",
     "get_plans", "get_plan", "create_plan", "update_plan",
     "get_subscriptions", "get_subscription", "subscribe_customer",
     "update_subscription", "unsubscribe_customer", "get_subscribers",
     "get_invoice", "get_invoices", "get_gateways", "get_gateway",
     "create_charge", "get_charge", "get_cards", "get_card",
     "create_card", "delete_card", "get_promos", "get_promo",
     "create_promo", "delete_promo", "get_email_template", "send_email",
     "get_account", "get_stats", "get_shipping_rules",
     "get_shipping_rule", "get_tax_rules", "get_tax_rule",
     "get_multi_auth_token"}
DispatchRoutines == {"_get", "_post"}

Called == last.outcome # "none"
Answered == last.resp.obtained

\* The client as constructed.
Constructed == __init__(ctor.api_key, ctor.api_secret, ctor.api_base)

\* C1: whenever a call (any endpoint method, _get or _post) was answered
\* with status 200 and a body that is JSON, the call returned, and the value
\* it returned is the decoded body itself: the body {"a":1} comes back as
\* the dict {a: 1}, the body 404 as the int 404.
C1_Status200ReturnsDecodedBody ==
    (Answered /\ last.resp.status_code = 200 /\ json(last.resp.body).ok)
        => /\ last.outcome = "returned"
           /\ last.ret = json(last.resp.body).val
           /\ last.resp.body = BodyObject
                  => last.ret = PyDict({<<"a", PyInt(1)>>})
           /\ last.resp.body = BodyNumber => last.ret = PyInt(404)

C1_Witness ==
    /\ last.method = "create_customer"
    /\ last.resp.status_code = 200
    /\ last.resp.body = BodyObject
    /\ last.outcome = "returned"
    /\ last.ret = PyDict({<<"a", PyInt(1)>>})

\* C2: whenever a call was answered with a status other than 200, the call
\* returned (raised nothing), the value it returned is that status code as
\* an int, and the response body was never decoded.
C2_Non200ReturnsStatusCode ==
    (Answered /\ last.resp.status_code # 200)
        => /\ last.outcome = "returned"
           /\ last.ret = PyInt(last.resp.status_code)
           /\ last.resp.json_calls = 0

C2_Witness ==
    /\ last.method = "get_plans"
    /\ last.resp.status_code = 404
    /\ last.resp.body = BodyObject
    /\ last.ret = PyInt(404)
    /\ last.outcome = "returned"

\* The endpoint catalog of section 6 of the specification, transcribed row
\* by row: verb, path (as text, for the IDs the callers draw from) and
\* parameter shape.  It is what C3 and C9 compare the program against.
CatalogVerb(method) ==
    IF method \in {"create_customer", "update_customer", "update_answer",
                   "create_plan", "update_plan", "subscribe_customer",
                   "update_subscription", "unsubscribe_customer",
                   "create_charge", "create_card", "delete_card",
                   "create_promo", "delete_promo", "send_email",
                   "get_multi_auth_token"}
    THEN "POST" ELSE "GET"

Decimal(id) ==
    CASE id = PyInt(5) -> "5" [] id = PyInt(42) -> "42"

CatalogPath(method, args) ==
    CASE method = "get_customers" -> "/customers"
      [] method = "get_customer" -> "/customer/" \o Decimal(args[1])
      [] method = "create_customer" -> "/create/customer"
      [] method = "update_customer" -> "/update/customer"
      [] method = "get_questions" -> "/questions"
      [] method = "update_answer" -> "/update/answer"
      [] method = "get_answers" -> "/answers"
      [] method = "get_plans" -> "/plans"
      [] method = "get_plan" -> "/plan/" \o Decimal(args[1])
      [] method = "create_plan" -> "/create/plan"
      [] method = "update_plan" -> "/update/plan"
      [] method = "get_subscriptions" -> "/subscriptions/" \o Decimal(args[1])
      [] method = "get_subscription" -> "/subscription/" \o Decimal(args[1])
      [] method = "subscribe_customer" -> "/subscribe/customer"
      [] method = "update_subscription" -> "/update/subscription"
      [] method = "unsubscribe_customer" -> "/unsubscribe/customer"
      [] method = "get_subscribers" -> "/subscribers"
      [] method = "get_invoice" -> "/invoice/" \o Decimal(args[1])
      [] method = "get_invoices" -> "/invoices/" \o Decimal(args[1])
      [] method = "get_gateways" -> "/gateways"
      [] method = "get_gateway" -> "/gateway/" \o Decimal(args[1])
      [] method = "create_charge" -> "/create/charge"
      [] method = "get_charge" -> "/charge/" \o Decimal(args[1])
      [] method = "get_cards" -> "/cards/" \o Decimal(args[1])
      [] method = "get_card" -> "/card/" \o Decimal(args[1])
      [] method = "create_card" -> "/create/card"
      [] method = "delete_card" -> "/delete/card"
      [] method = "get_promos" -> "/promo"
      [] method = "get_promo" -> "/promo/" \o Decimal(args[1])
      [] method = "create_promo" -> "/create/promo"
      [] method = "delete_promo" -> "/delete/promo"
      [] method = "get_email_template" -> "/email/" \o Decimal(args[1])
      [] method = "send_email" -> "/send-email"
      [] method = "get_account" -> "/account"
      [] method = "get_stats" -> "/stats"
      [] method = "get_shipping_rules" -> "/shipping/"
      [] method = "get_shipping_rule" -> "/shipping/" \o Decimal(args[1])
      [] method = "get_tax_rules" -> "/tax"
      [] method = "get_tax_rule" -> "/tax/" \o Decimal(args[1])
      [] method = "get_multi_auth_token" -> "/multiauth"

CatalogParams(method, args) ==
    CASE method \in {"get_customers", "create_customer", "update_customer",
                     "update_answer", "get_plans", "create_plan",
                     "update_plan", "subscribe_customer", "get_subscribers",
                     "create_charge", "create_card", "create_promo",
                     "send_email", "get_multi_auth_token"} -> args[1]
      [] method = "get_questions" -> PyDict({<<"limit", args[1]>>})
      [] method = "get_answers" -> PyDict({<<"customer_id", args[1]>>})
      [] method = "unsubscribe_customer" ->
             PyDict({<<"subscription_id", args[1]>>})
      [] method \in {"delete_card", "delete_promo"} ->
             PyDict({<<"id", args[1]>>})
      [] method = "update_subscription" ->
             PyDict({<<"subscription_id", args[1]>>, <<"plan_id", args[2]>>}
                    \cup (IF args[3] = PyNone THEN {}
                          ELSE {<<"quantity", args[3]>>}))
      [] OTHER -> PyDict({})

\* C3 (as claimed): every endpoint method sends its one request to the base
\* URL followed by its catalog path (which begins with the one separator),
\* and get_customer(42) on the client built with "k", "s" and the default
\* base URL sends GET https://api.paywhirl.com/customer/42 with headers
\* {api_key: k, api_secret: s} and empty parameters.
C3_OneSeparatorInUrl ==
    (Called /\ last.method \in EndpointMethods)
        => /\ Len(last.sent) = 1
           /\ last.sent[1].url
                  = ctor.api_base \o CatalogPath(last.method, last.args)
           /\ ( /\ last.method = "get_customer"
                /\ last.args = <<PyInt(42)>>
                /\ ctor = [api_key |-> "k", api_secret |-> "s",
                           api_base |-> "https://api.paywhirl.com"] )
                  => last.sent
                       = <<Request("GET",
                                   "https://api.paywhirl.com/customer/42",
                                   {<<"api_key", "k">>, <<"api_secret", "s">>},
                                   PyDict({}))>>

\* C4 (as claimed): whenever a call obtained a response, the response has
\* been closed by the time the call is over, whether it returned the decoded
\* body, failed to decode it, or returned a status code.
C4_ResponseClosedOnEveryPath ==
    (Called /\ Answered) => last.resp.closed

\* C5: every request a call sent carries exactly the two headers api_key
\* and api_secret, with the key and secret the constructor was given, on
\* the first call and on every later one, GET and POST alike.
C5_HeadersAreTheCredentials ==
    \A i \in 1..Len(last.sent) :
        last.sent[i].headers
            = {<<"api_key", ctor.api_key>>, <<"api_secret", ctor.api_secret>>}

C5_Witness ==
    /\ ncalls = 3
    /\ last.method = "create_charge"
    /\ Len(last.sent) = 1
    /\ last.sent[1].verb = "POST"
    /\ last.sent[1].headers
           = {<<"api_key", "key2">>, <<"api_secret", "secret2">>}

\* C6: every call, however it ended (200, non-200, undecodable body,
\* transport failure), handed exactly one request to the HTTP library, and
\* the requests sent over the client's life number exactly its calls.
C6_OneRequestPerCall ==
    /\ Called => Len(last.sent) = 1
    /\ nrequests = ncalls

C6_Witness ==
    /\ ncalls = 2
    /\ nrequests = 2
    /\ last.method = "get_invoice"
    /\ last.resp.status_code = 500
    /\ last.outcome = "returned"
    /\ Len(last.sent) = 1

\* C7: update_subscription goes to _post with the path /update/subscription
\* and sends one POST whose parameters are exactly subscription_id and
\* plan_id when quantity is omitted (None), and exactly those two plus
\* quantity when a quantity is given (0 included).
C7_UpdateSubscriptionParams ==
    (Called /\ last.method = "update_subscription")
        => /\ last.routine = "_post"
           /\ last.endpoint = "/update/subscription"
           /\ Len(last.sent) = 1
           /\ last.sent[1].verb = "POST"
           /\ last.args[3] = PyNone
                  => last.sent[1].params
                       = PyDict({<<"subscription_id", last.args[1]>>,
                                 <<"plan_id", last.args[2]>>})
           /\ last.args[3] # PyNone
                  => last.sent[1].params
                       = PyDict({<<"subscription_id", last.args[1]>>,
                                 <<"plan_id", last.args[2]>>,
                                 <<"quantity", last.args[3]>>})
           /\ last.args = <<PyInt(5), PyInt(9), PyInt(3)>>
                  => last.sent[1].params.entries
                       = {<<"subscription_id", PyInt(5)>>,
                          <<"plan_id", PyInt(9)>>, <<"quantity", PyInt(3)>>}

C7_Witness ==
    /\ last.method = "update_subscription"
    /\ last.args = <<PyInt(5), PyInt(9), PyNone>>
    /\ Len(last.sent) = 1
    /\ last.sent[1].params.entries
           = {<<"subscription_id", PyInt(5)>>, <<"plan_id", PyInt(9)>>}
    /\ \A e \in last.sent[1].params.entries : e[1] # "quantity"

\* C8: a direct call of _get or _post sends its request to the base URL,
\* then '/', then the endpoint exactly as given: "customers" on the default
\* base URL gives https://api.paywhirl.com/customers, and "/customers",
\* not being normalised, gives https://api.paywhirl.com//customers.
C8_UrlIsBaseSeparatorPath ==
    (Called /\ last.method \in DispatchRoutines)
        => /\ Len(last.sent) = 1
           /\ last.sent[1].url = ctor.api_base \o "/" \o last.args[1]
           /\ last.sent[1].verb = (IF last.method = "_get" THEN "GET" ELSE "POST")
           /\ (ctor.api_base = "https://api.paywhirl.com"
               /\ last.args[1] = "customers")
                  => last.sent[1].url = "https://api.paywhirl.com/customers"
           /\ (ctor.api_base = "https://api.paywhirl.com"
               /\ last.args[1] = "/customers")
                  => last.sent[1].url = "https://api.paywhirl.com//customers"

C8_Witness ==
    /\ last.method = "_get"
    /\ last.args[1] = "customers"
    /\ ctor.api_base = "https://api.paywhirl.com"
    /\ Len(last.sent) = 1
    /\ last.sent[1].url = "https://api.paywhirl.com/customers"

\* What the dispatch routine the catalog names gives for the catalog's path
\* and parameters, on the client as constructed, under the answer the call
\* received.
CatalogDispatch(call) ==
    LET io == IF call.resp.obtained
              THEN Answer(call.resp.status_code, call.resp.body)
              ELSE TransportFailure
        path == CatalogPath(call.method, call.args)
        params == CatalogParams(call.method, call.args)
    IN IF CatalogVerb(call.method) = "GET"
       THEN _get(Constructed, path, params, io)
       ELSE _post(Constructed, path, params, io)

\* C9: every endpoint method enters the dispatch routine of its catalog
\* verb with its catalog path, sends one request with that verb and with
\* the parameters of its catalog shape (the caller's dict as supplied, the
\* single ID under its key, or none), and ends exactly as that dispatch
\* routine ends: same value returned, or same failure.
C9_MethodsFollowCatalog ==
    (Called /\ last.method \in EndpointMethods)
        => /\ last.routine
                  = (IF CatalogVerb(last.method) = "GET" THEN "_get" ELSE "_post")
           /\ last.endpoint = CatalogPath(last.method, last.args)
           /\ Len(last.sent) = 1
           /\ last.sent[1].verb = CatalogVerb(last.method)
           /\ last.sent[1].params = CatalogParams(last.method, last.args)
           /\ last.outcome = CatalogDispatch(last).outcome
           /\ last.ret = CatalogDispatch(last).ret

C9_Witness ==
    /\ last.method = "delete_promo"
    /\ last.args = <<PyInt(42)>>
    /\ last.routine = "_post"
    /\ last.endpoint = "/delete/promo"
    /\ Len(last.sent) = 1
    /\ last.sent[1].params = PyDict({<<"id", PyInt(42)>>})
    /\ last.resp.status_code = 200
    /\ last.ret = PyDict({<<"a", PyInt(1)>>})

\* C10: a successful call that repeats an earlier successful call of the
\* same client (same method, same arguments, same answer from the
\* transport) returns the same value and sent the same request (verb, URL,
\* headers, parameters), whatever calls were made in between.
C10_IdenticalCallsAgree ==
    ( /\ memo.set
      /\ Called
      /\ last.method = memo.call.method
      /\ last.args = memo.call.args
      /\ Answered
      /\ last.resp.status_code = 200
      /\ last.resp.body = memo.call.resp.body
      /\ json(last.resp.body).ok )
        => /\ last.outcome = "returned"
           /\ last.ret = memo.call.ret
           /\ last.sent = memo.call.sent

C10_Witness ==
    /\ memo.set
    /\ memo.others
    /\ ncalls = 3
    /\ last.method = "get_customer"
    /\ memo.call.method = "get_customer"
    /\ last.args = memo.call.args
    /\ last.resp.status_code = 200
    /\ last.resp.body = memo.call.resp.body
    /\ last.outcome = "returned"
    /\ last.ret = memo.call.ret
    /\ last.sent = memo.call.sent

\* The endpoint methods that hand the caller's own dict to the dispatch
\* routine (the catalog's "passthrough dict" rows).
PassthroughMethods ==
    {"get_customers", "create_customer", "update_customer", "update_answer",
     "get_plans", "create_plan", "update_plan", "subscribe_customer",
     "get_subscribers", "create_charge", "create_card", "create_promo",
     "send_email", "get_multi_auth_token"}

\* C11: after any sequence of calls, however each ended, the client's key,
\* secret and base URL are the ones the constructor was given; and the
\* mapping a call handed over as params (the caller's own dict, for a
\* passthrough method or a direct _get / _post) is, when the call is over,
\* as it was when the call began.
C11_CallsChangeNothing ==
    /\ _api_key = ctor.api_key
    /\ _api_secret = ctor.api_secret
    /\ _api_base = ctor.api_base
    /\ Called => last.mapping.left = last.mapping.given
    /\ (Called /\ last.method \in PassthroughMethods)
           => /\ last.mapping.given = last.args[1]
              /\ last.mapping.left = last.args[1]
    /\ (Called /\ last.method \in DispatchRoutines)
           => /\ last.mapping.given = last.args[2]
              /\ last.mapping.left = last.args[2]

C11_Witness ==
    /\ ncalls = 3
    /\ last.method = "update_customer"
    /\ last.args = <<PyDict({<<"limit", PyInt(2)>>})>>
    /\ last.resp.status_code = 404
    /\ last.outcome = "returned"
    /\ last.mapping.left = PyDict({<<"limit", PyInt(2)>>})
    /\ Self = Constructed

\* C12 (as claimed): whenever a call returned a value, that value is an int
\* if and only if the response status was not 200.
C12_IntIffNot200 ==
    (Called /\ last.outcome = "returned")
        => (last.ret.t = "int" <=> last.resp.status_code # 200)

\* C12 (amended): whenever a call returned a value, that value is an int if
\* and only if the response status was not 200 or the body of the 200
\* response is itself a JSON integer; a 200 whose body is a JSON object
\* never returns an int, and a 200 whose body is the JSON integer 404
\* returns the same value as a 404 response.
C12_IntIffNot200OrIntegerBody ==
    (Called /\ last.outcome = "returned")
        => /\ last.ret.t = "int"
                  <=> \/ last.resp.status_code # 200
                      \/ json(last.resp.body).val.t = "int"
           /\ (last.resp.status_code = 200 /\ last.resp.body = BodyObject)
                  => last.ret.t = "dict"
           /\ (last.resp.status_code = 200 /\ last.resp.body = BodyNumber)
                  => last.ret = PyInt(404)

C12_Witness ==
    /\ last.method = "get_account"
    /\ last.resp.status_code = 200
    /\ last.resp.body = BodyNumber
    /\ last.outcome = "returned"
    /\ last.ret = PyInt(404)

====
